---- MODULE Spec2Model ----
(***************************************************************************)
(* The batched polling pipeline of lighthouse: performStoreSlaCheck        *)
(* (serviceability probes over the locations of store_sla.csv) and         *)
(* performItemAvailabilityCheck (store x item probes, chunked by           *)
(* processStoresInBatches), with the save to Supabase and the report.      *)
(*                                                                         *)
(* JavaScript scalars are strings ("true", "false", "null", "undefined",   *)
(* ids, labels); objects are records, a missing property is a field that   *)
(* is not in the record's DOMAIN; arrays are sequences.  A promise that is *)
(* awaited is a control position (pc) of the invocation, and the promises  *)
(* of one Promise.all are the sequence `promises` with `settled` holding   *)
(* the values of those that have resolved.                                 *)
(***************************************************************************)
EXTENDS Integers, Sequences, FiniteSets, TLC

VARIABLES
    pc,           \* position of the invocation's coordinating flow
    kind,         \* "sla" (performStoreSlaCheck) or "avail" (performItemAvailabilityCheck)
    options,      \* the options object the caller passed
    items,        \* items to check (availability)
    stores,       \* serviceable stores (availability)
    locations,    \* rows of store_sla.csv
    i,            \* loop variable of processStoresInBatches
    promises,     \* work units of the Promise.all being awaited, in creation order
    settled,      \* index of `promises` -> resolved value, for the promises that resolved
    results,      \* success list
    errors,       \* error list
    saveArg,      \* argument of the save call being awaited
    db,           \* rows of the table the invocation writes to
    insertCalls,  \* number of supabase insert calls issued
    cooldowns,    \* number of inter-batch delays started
    report,       \* <<>> until the invocation returns, then <<FinalReport>>
    callLog,      \* history: <<work unit, what its outbound call did>>
    runs,         \* overlapping invocations: invocation -> its local variables
    accs,         \* overlapping invocations: the results/errors arrays in use
    applied       \* a function applied on its own: its name, argument and return value

vars == <<pc, kind, options, items, stores, locations, i, promises, settled,
          results, errors, saveArg, db, insertCalls, cooldowns, report, callLog,
          runs, accs, applied>>

(***************************************************************************)
(* Bounds of the model.                                                    *)
(***************************************************************************)
\* most work units (locations, or stores x items) of one invocation
MaxUnits == 2
\* largest explicit options.batchSize
MaxBatchSize == 1
\* largest number of minutes of an SLA label handed to the classifier
MaxMinutes == 45

(***************************************************************************)
(* JavaScript helpers.                                                     *)
(***************************************************************************)
Undefined == "undefined"
Null == "null"
EmptyObj == [x \in {} |-> x]

\* undefined and null where the code expects an object, and a string given
\* character by character
UndefinedValue == [jsValue |-> "undefined"]
NullValue == [jsValue |-> "null"]
StringValue(chars) == [jsValue |-> "string", chars |-> chars]
IsObject(v) == v \notin {UndefinedValue, NullValue}

Has(obj, f) == f \in DOMAIN obj

\* v || d for string-valued v
Or(v, d) == IF v \in {Undefined, Null, "", "false"} THEN d ELSE v

\* obj.f || d
FieldOr(obj, f, d) == IF Has(obj, f) THEN Or(obj[f], d) ELSE d

Min(a, b) == IF a < b THEN a ELSE b

\* Array.prototype.slice(from, to) on a sequence, 0-based, to exclusive
Slice(s, from, to) == SubSeq(s, from + 1, Min(to, Len(s)))

\* new Date().toISOString(): the clock is not modelled
Now == "timestamp"

(***************************************************************************)
(* The world: the rows of the two CSV files, the answers of the Swiggy API *)
(* and the draws of Math.random().                                         *)
(***************************************************************************)
\* row l of store_sla.csv as getLocationData formats it
Location(l) ==
    [name |-> "Society " \o ToString(l),
     societyName |-> "Society " \o ToString(l),
     area |-> "Area",
     city |-> "City",
     lat |-> ToString(l),
     lng |-> ToString(l)]

LocationList(n) == [l \in 1..n |-> Location(l)]

\* product ids of item_list.csv / of options.itemIds
ProductIds == <<"A8S21QP2A1", "RC72JAN6NK", "61WDNU5G4B", "D7RY5RSB1Y">>

\* config.defaultItems
defaultItems == <<"A8S21QP2A1", "RC72JAN6NK", "61WDNU5G4B", "D7RY5RSB1Y">>

\* config.batchSize
ConfigBatchSize == 50

\* the rows of item_list.csv as readItemListCsv formats them
CsvItems(n) ==
    [k \in 1..n |-> [itemInternalName |-> "csv_" \o ProductIds[k],
                     productId |-> ProductIds[k]]]

\* bodies the serviceability endpoint answers with (response.data of axios)
\* (the example of extractSlaData's comment: storeId 762611, "16 Mins")
SlaBody(storeId, serviceability) ==
    [data |-> [storeId |-> storeId,
               slaString |-> "16 Mins",
               serviceability |-> serviceability,
               storeDetails |-> [description |-> "Store Name",
                                 locality |-> "Location"]]]

SlaBodies ==
    { SlaBody("762611", "SERVICEABLE"),
      SlaBody("762611", "NOT_SERVICEABLE"),
      [statusCode |-> "1", statusMessage |-> "Something went wrong"] }

\* bodies the item endpoint answers with
ItemBody(available) ==
    [data |-> [item |-> [inStockAndSlotAvailable |-> available,
                         display_name |-> "Milk",
                         brand |-> "Amul",
                         category |-> "Dairy"],
               storeDetails |-> [id |-> "1385841",
                                 locality |-> "Indiranagar",
                                 name |-> "Instamart"]]]

ItemBodies ==
    { ItemBody("true"),
      [data |-> [storeDetails |-> [id |-> "1385841",
                                   locality |-> "Indiranagar",
                                   name |-> "Instamart"]]] }

\* what `await axios(config)` does: resolves with a 2xx response, or throws
\* (timeout / transport error without a response, non-2xx with one)
AxiosErrors ==
    { [ok |-> FALSE, message |-> "timeout of 10000ms exceeded",
       response |-> EmptyObj],
      [ok |-> FALSE, message |-> "Request failed with status code 503",
       response |-> [status |-> 503, statusText |-> "Service Unavailable"]] }

AxiosOk(bodies) ==
    { [ok |-> TRUE, status |-> 200, statusText |-> "OK", data |-> b] : b \in bodies }

\* Math.floor(Math.random() * 5000), Math.floor(Math.random() * 20) and
\* Math.random() > 0.2: two draws of the ranges.  The first makes the mock
\* record equal in value to the record of a real serviceable answer, the
\* second is the upper end of each range.
SlaDraws ==
    { [store |-> 2611, sla |-> 6, serviceable |-> TRUE],
      [store |-> 4999, sla |-> 19, serviceable |-> FALSE] }

\* Math.random() > 0.3
AvailDraws == {"true", "false"}

(***************************************************************************)
(* cron/storeSlaCheck.js                                                   *)
(***************************************************************************)
NotAvailableSla ==
    [storeId |-> "N/A", name |-> "N/A", slaString |-> "N/A", serviceability |-> "N/A"]

\* the record of the catch block
ErrorSla == NotAvailableSla @@ [error |-> "Failed to extract SLA data"]

\* JSON.stringify(response, null, 2).substring(0, 500) of the log line
\* throws when JSON.stringify returns undefined
LogLineThrows(response) == response = UndefinedValue

extractSlaData(response) ==
    IF Has(response, "data") /\ IsObject(response.data)
    THEN LET data == response.data
             description == IF Has(data, "storeDetails")
                            THEN FieldOr(data.storeDetails, "description", "")
                            ELSE ""
             locality == IF Has(data, "storeDetails")
                         THEN FieldOr(data.storeDetails, "locality", "")
                         ELSE ""
             storeName == IF description # "" /\ locality # ""
                          THEN description \o " - " \o locality
                          ELSE IF description # "" THEN description
                          ELSE IF locality # "" THEN locality
                          ELSE "Instamart"
         IN  [storeId |-> FieldOr(data, "storeId", "N/A"),
              name |-> storeName,
              slaString |-> IF Has(data, "slaString") THEN data.slaString ELSE "N/A",
              serviceability |-> IF Has(data, "serviceability")
                                 THEN data.serviceability ELSE "N/A"]
    ELSE IF LogLineThrows(response) THEN ErrorSla
    ELSE NotAvailableSla

mockApiResponse(draw) ==
    [data |-> [storeId |-> ToString(760000 + draw.store),
               slaString |-> ToString(10 + draw.sla) \o " Mins",
               serviceability |-> IF draw.serviceable
                                  THEN "SERVICEABLE" ELSE "NOT_SERVICEABLE",
               storeDetails |-> [description |-> "Instamart Store",
                                 locality |-> "Test Location"]]]

callSwiggyApi_NoMock(location, resp, draw) ==
    IF resp.ok
    THEN [location |-> location,
          status |-> resp.status,
          statusText |-> resp.statusText,
          slaData |-> extractSlaData(resp.data),
          timestamp |-> Now,
          rawData |-> resp.data]
    ELSE [location |-> location,
          status |-> IF Has(resp.response, "status") THEN resp.response.status ELSE 500,
          statusText |-> IF Has(resp.response, "statusText")
                         THEN resp.response.statusText ELSE "Error",
          error |-> resp.message,
          slaData |-> extractSlaData(mockApiResponse(draw)),
          timestamp |-> Now]

\* the value callSwiggyApi(location) resolves with, given what axios did and
\* the random draws of the mock response
callSwiggyApi(location, resp, draw) ==
    IF resp.ok
    THEN LET real == extractSlaData(resp.data)
             slaData == IF real.storeId = "N/A" /\ real.slaString = "N/A"
                        THEN extractSlaData(mockApiResponse(draw))
                        ELSE real
         IN  [location |-> location,
              status |-> resp.status,
              statusText |-> resp.statusText,
              slaData |-> slaData,
              timestamp |-> Now,
              rawData |-> resp.data]
    ELSE [location |-> location,
          status |-> IF Has(resp.response, "status") THEN resp.response.status ELSE 500,
          statusText |-> IF Has(resp.response, "statusText")
                         THEN resp.response.statusText ELSE "Error",
          error |-> resp.message,
          slaData |-> extractSlaData(mockApiResponse(draw)),
          timestamp |-> Now]

(***************************************************************************)
(* cron/itemAvailabilityCheck.js                                           *)
(***************************************************************************)
Get(obj, f) == IF Has(obj, f) THEN obj[f] ELSE Undefined

NoAvailabilityData(itemId, itemInternalName) ==
    [itemId |-> itemId,
     itemInternalName |-> itemInternalName,
     available |-> Null,
     itemName |-> Null,
     brand |-> Null,
     category |-> Null,
     storeId |-> Null,
     storeLocality |-> Null,
     storeDescription |-> Null,
     variationsCount |-> 0,
     variationsInfo |-> Null,
     responseStatus |-> "NO_DATA"]

\* the record of the catch block
ErrorAvailabilityData(itemId, itemInternalName) ==
    [NoAvailabilityData(itemId, itemInternalName) EXCEPT !.responseStatus = "ERROR"]
        @@ [error |-> "Failed to extract availability data"]

\* item.variations.map(...) reads variation.id: a TypeError when an element
\* of the array is null or undefined
VariationsThrow(item) ==
    /\ Has(item, "variations")
    /\ \E v \in DOMAIN item.variations : ~IsObject(item.variations[v])

extractItemAvailabilityData(response, itemId, itemInternalName) ==
    IF Has(response, "data") /\ IsObject(response.data) /\ Has(response.data, "item")
    THEN LET item == response.data.item
             storeDetails == IF Has(response.data, "storeDetails")
                             THEN response.data.storeDetails ELSE EmptyObj
         IN  IF VariationsThrow(item)
             THEN ErrorAvailabilityData(itemId, itemInternalName) ELSE
             [itemId |-> itemId,
              itemInternalName |-> itemInternalName,
              available |-> Get(item, "inStockAndSlotAvailable"),
              itemName |-> FieldOr(item, "display_name",
                               FieldOr(item, "product_name_without_brand", Null)),
              brand |-> FieldOr(item, "brand", Null),
              category |-> FieldOr(item, "category",
                               FieldOr(item, "super_category", Null)),
              storeId |-> FieldOr(storeDetails, "id", Null),
              storeLocality |-> FieldOr(storeDetails, "locality", Null),
              storeDescription |-> FieldOr(storeDetails, "name", Null),
              variationsCount |-> IF Has(item, "variations")
                                  THEN Len(item.variations) ELSE 0,
              variationsInfo |-> IF Has(item, "variations")
                                 THEN [v \in DOMAIN item.variations |->
                                          [id |-> Get(item.variations[v], "id"),
                                           quantity |-> Get(item.variations[v], "quantity")]]
                                 ELSE Null,
              responseStatus |-> "SUCCESS"]
    ELSE IF LogLineThrows(response)
         THEN ErrorAvailabilityData(itemId, itemInternalName)
    ELSE NoAvailabilityData(itemId, itemInternalName)

mockAvailabilityData(store, item, draw) ==
    [itemId |-> item.productId,
     itemInternalName |-> item.itemInternalName,
     available |-> draw,
     itemName |-> "Mock Item " \o item.productId,
     storeId |-> store.storeId,
     storeLocality |-> store.spotArea,
     storeDescription |-> "Mock Store " \o store.storeId]

\* the value checkItemAvailability(store, item) resolves with, given what
\* axios did and the random draw of the mock record
checkItemAvailability(store, item, resp, draw) ==
    IF resp.ok
    THEN [store |-> store,
          itemId |-> item.productId,
          itemInternalName |-> item.itemInternalName,
          status |-> resp.status,
          statusText |-> resp.statusText,
          availabilityData |->
              extractItemAvailabilityData(resp.data, item.productId,
                                          item.itemInternalName),
          timestamp |-> Now,
          rawData |-> resp.data]
    ELSE [store |-> store,
          itemId |-> item.productId,
          itemInternalName |-> item.itemInternalName,
          status |-> IF Has(resp.response, "status") THEN resp.response.status ELSE 500,
          statusText |-> IF Has(resp.response, "statusText")
                         THEN resp.response.statusText ELSE "Error",
          error |-> resp.message,
          availabilityData |-> mockAvailabilityData(store, item, draw),
          timestamp |-> Now]

\* getStoreServiceabilityData: the stores of the settled location probes
StoreOf(result) ==
    [storeId |-> result.slaData.storeId,
     spotName |-> result.location.societyName,
     spotArea |-> result.location.area,
     spotCity |-> result.location.city,
     coordinates |-> [lat |-> result.location.lat, lng |-> result.location.lng],
     serviceability |-> result.slaData.serviceability,
     sla |-> result.slaData.slaString,
     lastChecked |-> result.timestamp]

IsServiceable(result) == result.slaData.serviceability = "SERVICEABLE"

RECURSIVE MapSeq(_, _)
MapSeq(Op(_), s) ==
    IF s = <<>> THEN <<>> ELSE <<Op(Head(s))>> \o MapSeq(Op, Tail(s))

ServiceableStores(apiResults) ==
    MapSeq(StoreOf, SelectSeq(apiResults, IsServiceable))

BatchOf_ToEnd(allStores, idx, batchSize) == Slice(allStores, idx, Len(allStores))

\* stores.slice(i, i + batchSize)
BatchOf(allStores, idx, batchSize) == Slice(allStores, idx, idx + batchSize)

BatchPromises_FirstItem(batch, its) ==
    [k \in 1..(Len(batch) * Len(its)) |->
        [store |-> batch[((k - 1) \div Len(its)) + 1],
         item |-> its[1]]]

\* batch.forEach(store => items.forEach(item => batchPromises.push(...)))
BatchPromises(batch, its) ==
    [k \in 1..(Len(batch) * Len(its)) |->
        [store |-> batch[((k - 1) \div Len(its)) + 1],
         item |-> its[((k - 1) % Len(its)) + 1]]]

\* locations.map(location => callSwiggyApi(location))
ApiPromises(locs) == [k \in 1..Len(locs) |-> [location |-> locs[k]]]

\* if (result.error) errors.push(result) else results.push(result)
IsError_HasResponse(result) ==
    Has(result, "error") /\ result.error # "" /\ result.status # 500

IsError(result) == Has(result, "error") /\ result.error # ""
IsSuccess(result) == ~IsError(result)

PushResults_All(acc, batchResults) == acc \o batchResults

PushResults(acc, batchResults) == acc \o SelectSeq(batchResults, IsSuccess)
PushErrors(acc, batchResults) == acc \o SelectSeq(batchResults, IsError)

HasNextBatch_Always(idx, batchSize, n) == TRUE

\* the condition of the delay: i + batchSize < stores.length
HasNextBatch(idx, batchSize, n) == idx + batchSize < n

LoopContinues_Inclusive(idx, n) == idx <= n

\* the condition of the for loop: i < stores.length
LoopContinues(idx, n) == idx < n

ProbeRejects_Rethrow(resp) == ~resp.ok

\* whether the promise of a probe rejects: the whole body of callSwiggyApi
\* and of checkItemAvailability is a try block whose catch returns a value
ProbeRejects(resp) == FALSE

ShouldSave_Always(opts) == TRUE

\* if (!options.testMode)
ShouldSave(opts) == ~opts.testMode

\* options.batchSize || config.batchSize
BatchSize(opts) == IF opts.batchSize = 0 THEN ConfigBatchSize ELSE opts.batchSize

(***************************************************************************)
(* Projections, rows and reports.                                          *)
(***************************************************************************)
SimplifiedAvailResult_PayloadStore(result) ==
    [storeId |-> result.availabilityData.storeId,
     itemId |-> result.itemId,
     itemInternalName |-> result.itemInternalName,
     itemName |-> result.availabilityData.itemName,
     storeLocality |-> result.availabilityData.storeLocality,
     storeDescription |-> result.availabilityData.storeDescription,
     spotName |-> result.store.spotName,
     spotArea |-> result.store.spotArea,
     spotCity |-> result.store.spotCity,
     coordinates |-> result.store.coordinates,
     available |-> result.availabilityData.available,
     timestamp |-> result.timestamp]

SimplifiedAvailResult(result) ==
    [storeId |-> Or(result.availabilityData.storeId, result.store.storeId),
     itemId |-> result.itemId,
     itemInternalName |-> result.itemInternalName,
     itemName |-> result.availabilityData.itemName,
     storeLocality |-> result.availabilityData.storeLocality,
     storeDescription |-> result.availabilityData.storeDescription,
     spotName |-> result.store.spotName,
     spotArea |-> result.store.spotArea,
     spotCity |-> result.store.spotCity,
     coordinates |-> result.store.coordinates,
     available |-> result.availabilityData.available,
     timestamp |-> result.timestamp]

SimplifiedAvailError(e) ==
    [storeId |-> e.store.storeId,
     itemId |-> e.itemId,
     spotName |-> e.store.spotName,
     spotArea |-> e.store.spotArea,
     spotCity |-> e.store.spotCity,
     coordinates |-> e.store.coordinates,
     error |-> e.error,
     timestamp |-> e.timestamp]

LocationMeta(location) ==
    [societyName |-> Get(location, "societyName"),
     area |-> Get(location, "area"),
     city |-> Get(location, "city"),
     coordinates |-> [lat |-> location.lat, lng |-> location.lng]]

SimplifiedSlaResult(result) ==
    [locationMeta |-> LocationMeta(result.location),
     storeId |-> result.slaData.storeId,
     storeDescription |-> Get(result.slaData, "storeDescription"),
     storeLocality |-> Get(result.slaData, "storeLocality"),
     sla |-> result.slaData.slaString,
     serviceability |-> result.slaData.serviceability,
     timestamp |-> result.timestamp]

SimplifiedSlaError_WithRecord(e) ==
    [locationMeta |-> LocationMeta(e.location),
     storeId |-> e.slaData.storeId,
     sla |-> e.slaData.slaString,
     error |-> e.error,
     timestamp |-> e.timestamp]

SimplifiedSlaError(e) ==
    [locationMeta |-> LocationMeta(e.location),
     error |-> e.error,
     timestamp |-> e.timestamp]

SimplifiedResults(k, res) ==
    IF k = "sla" THEN MapSeq(SimplifiedSlaResult, res)
    ELSE MapSeq(SimplifiedAvailResult, res)

SimplifiedErrors(k, errs) ==
    IF k = "sla" THEN MapSeq(SimplifiedSlaError, errs)
    ELSE MapSeq(SimplifiedAvailError, errs)

\* db/itemAvailability.js: the record inserted for one simplified result
ItemAvailabilityRow(result) ==
    [store_id |-> result.storeId,
     item_id |-> result.itemId,
     item_name |-> Or(result.itemName, Null),
     store_locality |-> Or(result.storeLocality, Null),
     store_description |-> Or(result.storeDescription, Null),
     spot_name |-> result.spotName,
     spot_area |-> result.spotArea,
     spot_city |-> result.spotCity,
     spot_lat |-> Or(result.coordinates.lat, Null),
     spot_lng |-> Or(result.coordinates.lng, Null),
     available |-> result.available]

\* db/storeServiceability.js: the record inserted for one simplified result
ServiceabilityRow(result) ==
    [store_id |-> result.storeId,
     sla |-> result.sla,
     serviceability |-> result.serviceability,
     store_description |-> Or(result.storeDescription, ""),
     store_locality |-> Or(result.storeLocality, ""),
     spot_name |-> Or(result.locationMeta.societyName, "N/A"),
     spot_area |-> Or(result.locationMeta.area, "N/A"),
     spot_city |-> Or(result.locationMeta.city, "N/A"),
     spot_lat |-> result.locationMeta.coordinates.lat,
     spot_lng |-> result.locationMeta.coordinates.lng]

InsertedRows_Tail(k, simplified) ==
    IF Len(simplified) = 0 THEN <<>>
    ELSE IF k = "sla" THEN MapSeq(ServiceabilityRow, Tail(simplified))
    ELSE MapSeq(ItemAvailabilityRow, Tail(simplified))

\* what saveItemAvailabilityResults / saveServiceabilityResults hand to
\* supabase.insert; <<>> when they return before calling it
InsertedRows(k, simplified) ==
    IF Len(simplified) = 0 THEN <<>>
    ELSE IF k = "sla" THEN MapSeq(ServiceabilityRow, simplified)
    ELSE MapSeq(ItemAvailabilityRow, simplified)

\* ((a / b) * 100).toFixed(2) + "%"
Digit2(n) == IF n < 10 THEN "0" \o ToString(n) ELSE ToString(n)
SuccessRate(a, b) ==
    IF b = 0 THEN "NaN%"
    ELSE LET h == (2 * a * 10000 + b) \div (2 * b)
         IN  ToString(h \div 100) \o "." \o Digit2(h % 100) \o "%"

AvailReport(sts, its, res, errs, opts) ==
    [success |-> TRUE,
     message |-> "Completed item availability check for " \o ToString(Len(sts))
                 \o " stores and " \o ToString(Len(its)) \o " items",
     timestamp |-> Now,
     duration |-> "elapsed seconds",
     summary |-> [totalStores |-> Len(sts),
                  totalItems |-> Len(its),
                  totalChecks |-> Len(sts) * Len(its),
                  successful |-> Len(res),
                  failed |-> Len(errs),
                  successRate |-> SuccessRate(Len(res), Len(sts) * Len(its))],
     results |-> IF opts.returnFullData THEN res ELSE SimplifiedResults("avail", res),
     errors |-> SimplifiedErrors("avail", errs),
     options |-> opts]

SlaReport(locs, res, errs, opts) ==
    [success |-> TRUE,
     message |-> "Completed SLA check for " \o ToString(Len(locs)) \o " locations",
     timestamp |-> Now,
     summary |-> [total |-> Len(locs),
                  successful |-> Len(res),
                  failed |-> Len(errs)],
     results |-> IF opts.returnFullData THEN res ELSE SimplifiedResults("sla", res),
     errors |-> SimplifiedErrors("sla", errs),
     options |-> opts]

FinalReport(k, locs, sts, its, res, errs, opts) ==
    IF k = "sla" THEN SlaReport(locs, res, errs, opts)
    ELSE AvailReport(sts, its, res, errs, opts)

\* the catch block of either check
FailureReport(k, errorMessage, opts) ==
    [success |-> FALSE,
     message |-> IF k = "sla" THEN "Failed to perform SLA check"
                 ELSE "Failed to perform item availability check",
     error |-> errorMessage,
     timestamp |-> Now,
     options |-> opts]

(***************************************************************************)
(* The save functions of db/.  `outcome` is what supabase.insert did:      *)
(* "ok", "error" (it resolved with an error object) or "throw".  Both save *)
(* functions catch whatever is thrown and return {success: false}.         *)
(***************************************************************************)
InsertOutcomes == {"ok", "error", "throw"}

\* the table after the awaited insert
DbAfterInsert(table, rows, outcome) ==
    IF outcome = "ok" THEN table \o rows ELSE table

SaveResult_OkWhenEmpty(rows, outcome) ==
    IF outcome = "ok"
    THEN [success |-> TRUE, savedCount |-> Len(rows)]
    ELSE [success |-> FALSE, savedCount |-> 0]

\* the value the save function resolves with
SaveResult(rows, outcome) ==
    IF Len(rows) > 0 /\ outcome = "ok"
    THEN [success |-> TRUE, savedCount |-> Len(rows)]
    ELSE [success |-> FALSE, savedCount |-> 0]

ReportAfterSave_FailOnError(saveResult, k, locs, sts, its, res, errs, opts) ==
    IF saveResult.success
    THEN FinalReport(k, locs, sts, its, res, errs, opts)
    ELSE FailureReport(k, "Failed to save results", opts)

\* the report of the invocation once the awaited save call has returned:
\* the caller logs saveResult.success and goes on
ReportAfterSave(saveResult, k, locs, sts, its, res, errs, opts) ==
    FinalReport(k, locs, sts, its, res, errs, opts)

(***************************************************************************)
(* Inputs of an invocation.                                                *)
(***************************************************************************)
\* options.itemIds: absent, a comma separated string (given by the pieces
\* split(",") cuts it into), or an array as server.js and cron/index.js pass
ItemIdsOptions ==
    { [type |-> "undefined"],
      [type |-> "string", parts |-> <<"A8S21QP2A1">>],
      [type |-> "string", parts |-> <<"A8S21QP2A1", " RC72JAN6NK">>],
      [type |-> "array", parts |-> <<"A8S21QP2A1", "RC72JAN6NK">>] }

\* String.prototype.trim on the pieces above
Trim(piece) == IF piece = " RC72JAN6NK" THEN "RC72JAN6NK" ELSE piece

ItemOfId(piece) ==
    [productId |-> Trim(piece), itemInternalName |-> "item_" \o Trim(piece)]

DefaultItem(itemId) ==
    [itemInternalName |-> "item_" \o itemId, productId |-> itemId]

OptionsOf(k) ==
    IF k = "sla"
    THEN [testMode : BOOLEAN, returnFullData : BOOLEAN,
          batchSize : {0}, itemIds : {[type |-> "undefined"]}]
    ELSE [testMode : BOOLEAN, returnFullData : BOOLEAN,
          batchSize : 0..MaxBatchSize, itemIds : ItemIdsOptions]

(***************************************************************************)
(* server.js: the handlers of GET /api/internal_store_sla_check and of     *)
(* GET /api/item-availability-check.                                       *)
(***************************************************************************)
\* the options the handlers pass: itemIds absent or an array, no batchSize;
\* the SLA handler passes no testMode
HandlerOptions(k) ==
    IF k = "sla"
    THEN {o \in OptionsOf(k) : ~o.testMode}
    ELSE {o \in OptionsOf(k) : o.batchSize = 0 /\ o.itemIds.type # "string"}

\* how the awaited check settles for the handler: both checks wrap their
\* whole body in try/catch and return a report, they never reject
AwaitedCheck(rep) == [rejected |-> FALSE, value |-> rep]

\* the response the handler sends
HttpResponse(k, awaited) ==
    IF awaited.rejected
    THEN [status |-> 500,
          body |-> [error |-> IF k = "sla" THEN "Failed to perform SLA check"
                              ELSE "Failed to perform item availability check",
                    message |-> awaited.message]]
    ELSE LET result == awaited.value
             common == [success |-> result.success,
                        message |-> result.message,
                        timestamp |-> result.timestamp,
                        summary |-> Get(result, "summary"),
                        results |-> Get(result, "results"),
                        errors |-> Get(result, "errors")]
         IN  [status |-> 200,
              body |-> IF k = "sla" THEN common
                       ELSE common @@ [duration |-> Get(result, "duration")]]

(***************************************************************************)
(* The invocation.                                                         *)
(***************************************************************************)
\* invocations that may overlap: nothing serializes the calls of the HTTP
\* handler and of the scheduled job
Invocations == {1, 2}

\* the local variables of an invocation that has not started
RunIdle ==
    [pc |-> "idle", options |-> EmptyObj, items |-> <<>>, stores |-> <<>>,
     i |-> 0, promises |-> <<>>, settled |-> EmptyObj, report |-> <<>>]

\* const results = []; const errors = [];
NoOutcomes == [results |-> <<>>, errors |-> <<>>]

\* no function has been applied on its own
NotApplied == [fn |-> "none", arg |-> <<>>, ret |-> <<>>]

\* no invocation has started
Idle ==
    /\ pc = "idle"
    /\ kind = "none"
    /\ options = EmptyObj
    /\ items = <<>>
    /\ stores = <<>>
    /\ locations = <<>>
    /\ i = 0
    /\ promises = <<>>
    /\ settled = EmptyObj
    /\ results = <<>>
    /\ errors = <<>>
    /\ saveArg = <<>>
    /\ db = <<>>
    /\ insertCalls = 0
    /\ cooldowns = 0
    /\ report = <<>>
    /\ callLog = {}
    /\ runs = [p \in Invocations |-> RunIdle]
    /\ accs = [p \in Invocations |-> NoOutcomes]

Init == Idle /\ applied = NotApplied

AllSettled == DOMAIN settled = DOMAIN promises
ApiResults_Reversed == [k \in DOMAIN promises |-> settled[Len(promises) + 1 - k]]

\* the array await Promise.all(promises) resolves with: the value of each
\* promise at the position of the promise, whenever it resolved
ApiResults == [k \in DOMAIN promises |-> settled[k]]

\* return of the invocation
Return(rep) ==
    /\ pc' = "done"
    /\ report' = <<rep>>

\* the caller invokes performStoreSlaCheck(options) or
\* performItemAvailabilityCheck(options); runs up to the first await
Invoke(k, opts) ==
    /\ pc = "idle"
    /\ kind' = k
    /\ options' = opts
    /\ IF k = "avail" /\ opts.itemIds.type = "array"
       THEN \* Array has no split: TypeError, caught by the outer catch
            /\ Return(FailureReport(k, "options.itemIds.split is not a function", opts))
            /\ items' = items
       ELSE IF k = "avail" /\ opts.itemIds.type = "string"
       THEN /\ items' = MapSeq(ItemOfId, opts.itemIds.parts)
            /\ pc' = "locations"
            /\ report' = report
       ELSE /\ items' = items
            /\ pc' = IF k = "avail" THEN "items" ELSE "locations"
            /\ report' = report
    /\ UNCHANGED <<runs, accs, applied>>
    /\ UNCHANGED <<stores, locations, i, promises, settled, results, errors,
                   saveArg, db, insertCalls, cooldowns, callLog>>

\* history entries: the read of a unit list failed
ItemListReadFailed == <<[list |-> "items"], "read failed">>
LocationListReadFailed == <<[list |-> "locations"], "read failed">>

\* await getItemsToCheck(): the rows of item_list.csv
ItemsRead(n) ==
    /\ pc = "items"
    /\ items' = CsvItems(n)
    /\ pc' = "locations"
    /\ UNCHANGED <<runs, accs, applied>>
    /\ UNCHANGED <<kind, options, stores, locations, i, promises, settled, results,
                   errors, saveArg, db, insertCalls, cooldowns, report, callLog>>

ItemsReadFailed_Abort ==
    /\ pc = "items"
    /\ Return(FailureReport(kind, "Failed to read item list", options))
    /\ callLog' = callLog \cup {ItemListReadFailed}
    /\ UNCHANGED <<runs, accs, applied>>
    /\ UNCHANGED <<kind, options, items, stores, locations, i, promises, settled,
                   results, errors, saveArg, db, insertCalls, cooldowns>>

\* await getItemsToCheck() when readItemListCsv rejects: the default items
ItemsReadFailed ==
    /\ pc = "items"
    /\ items' = MapSeq(DefaultItem, defaultItems)
    /\ pc' = "locations"
    /\ callLog' = callLog \cup {ItemListReadFailed}
    /\ UNCHANGED <<runs, accs, applied>>
    /\ UNCHANGED <<kind, options, stores, locations, i, promises, settled, results,
                   errors, saveArg, db, insertCalls, cooldowns, report>>

\* await getLocationData() resolves with n rows; the probes of all of them
\* are issued at once (locations.map(callSwiggyApi))
LocationsRead(n) ==
    /\ pc = "locations"
    /\ kind = "avail" => n <= 1 \/ n * Len(items) <= MaxUnits
    /\ locations' = LocationList(n)
    /\ promises' = ApiPromises(LocationList(n))
    /\ settled' = EmptyObj
    /\ pc' = "apiWait"
    /\ UNCHANGED <<runs, accs, applied>>
    /\ UNCHANGED <<kind, options, items, stores, i, results, errors, saveArg, db,
                   insertCalls, cooldowns, report, callLog>>

\* getLocationData() rejects
LocationsReadFailed ==
    /\ pc = "locations"
    /\ Return(FailureReport(kind,
                  IF kind = "sla" THEN "Failed to parse location data from CSV"
                  ELSE "Failed to fetch store serviceability data", options))
    /\ callLog' = callLog \cup {LocationListReadFailed}
    /\ UNCHANGED <<runs, accs, applied>>
    /\ UNCHANGED <<kind, options, items, stores, locations, i, promises, settled,
                   results, errors, saveArg, db, insertCalls, cooldowns>>

\* what the outbound call of a probe did, for the history
KnownShape(body) ==
    /\ Has(body, "data")
    /\ \/ Has(body.data, "item")
       \/ Has(body.data, "storeId")
       \/ Has(body.data, "slaString")

AnswerKind(resp) ==
    IF ~resp.ok THEN "failed"
    ELSE IF KnownShape(resp.data) THEN "recognized" ELSE "unrecognized"

Settle_Retry(k, resp, value, counted) ==
    /\ k \in DOMAIN promises
    /\ k \notin DOMAIN settled
    /\ IF resp.ok
       THEN settled' = settled @@ (k :> value)
       ELSE settled' = settled
    /\ callLog' = IF counted THEN callLog \cup {<<promises[k], AnswerKind(resp)>>}
                  ELSE callLog
    /\ UNCHANGED <<runs, accs, applied>>
    /\ UNCHANGED <<pc, report, kind, options, items, stores, locations, i, promises,
                   results, errors, saveArg, db, insertCalls, cooldowns>>

\* the outbound call of promise k returns resp; the promise resolves with
\* `value`, or rejects and Promise.all rejects with it
Settle(k, resp, value, counted) ==
    /\ k \in DOMAIN promises
    /\ k \notin DOMAIN settled
    /\ IF ProbeRejects(resp)
       THEN /\ Return(FailureReport(kind,
                         IF kind = "avail" /\ pc = "apiWait"
                         THEN "Failed to fetch store serviceability data"
                         ELSE resp.message, options))
            /\ settled' = settled
       ELSE /\ settled' = settled @@ (k :> value)
            /\ UNCHANGED <<pc, report>>
    /\ callLog' = IF counted THEN callLog \cup {<<promises[k], AnswerKind(resp)>>}
                  ELSE callLog
    /\ UNCHANGED <<runs, accs, applied>>
    /\ UNCHANGED <<kind, options, items, stores, locations, i, promises,
                   results, errors, saveArg, db, insertCalls, cooldowns>>

LocationProbeSettles ==
    /\ pc = "apiWait"
    /\ \E k \in DOMAIN promises :
          \E resp \in AxiosOk(SlaBodies) \cup AxiosErrors : \E draw \in SlaDraws :
             Settle(k, resp, callSwiggyApi(promises[k].location, resp, draw),
                    kind = "sla")

ItemProbeSettles ==
    /\ pc = "batchWait"
    /\ \E k \in DOMAIN promises :
          \E resp \in AxiosOk(ItemBodies) \cup AxiosErrors : \E draw \in AvailDraws :
             Settle(k, resp,
                    checkItemAvailability(promises[k].store, promises[k].item,
                                          resp, draw),
                    TRUE)

\* after the probing phase: save unless options.testMode, then report
AfterProbing(res, errs, sts) ==
    IF ShouldSave(options)
    THEN /\ pc' = "save"
         /\ saveArg' = SimplifiedResults(kind, res)
         /\ insertCalls' = insertCalls +
               (IF Len(InsertedRows(kind, SimplifiedResults(kind, res))) > 0
                THEN 1 ELSE 0)
         /\ report' = report
    ELSE /\ Return(FinalReport(kind, locations, sts, items, res, errs, options))
         /\ UNCHANGED <<saveArg, insertCalls>>

LoopAt_SavePerChunk(idx, sts, res, errs) ==
    /\ i' = idx
    /\ IF LoopContinues(idx, Len(sts)) /\ idx = 0
       THEN /\ promises' = BatchPromises(BatchOf(sts, idx, BatchSize(options)), items)
            /\ settled' = EmptyObj
            /\ pc' = "batchWait"
            /\ UNCHANGED <<saveArg, insertCalls, report>>
       ELSE /\ AfterProbing(res, errs, sts)
            /\ UNCHANGED <<promises, settled>>

\* the for loop of processStoresInBatches at i = idx: the next batch is
\* issued, or the loop ends and the check goes on after it
LoopAt(idx, sts, res, errs) ==
    /\ i' = idx
    /\ IF LoopContinues(idx, Len(sts))
       THEN /\ promises' = BatchPromises(BatchOf(sts, idx, BatchSize(options)), items)
            /\ settled' = EmptyObj
            /\ pc' = "batchWait"
            /\ UNCHANGED <<saveArg, insertCalls, report>>
       ELSE /\ AfterProbing(res, errs, sts)
            /\ UNCHANGED <<promises, settled>>

NoStores_Never(sts) == FALSE

\* if (stores.length === 0) throw new Error("No serviceable stores found")
NoStores(sts) == Len(sts) = 0

\* await Promise.all(apiPromises) resolves
ApiJoin ==
    /\ pc = "apiWait"
    /\ AllSettled
    /\ IF kind = "sla"
       THEN /\ results' = PushResults(<<>>, ApiResults)
            /\ errors' = PushErrors(<<>>, ApiResults)
            /\ AfterProbing(results', errors', stores)
            /\ UNCHANGED <<stores, i, promises, settled>>
       ELSE /\ stores' = ServiceableStores(ApiResults)
            /\ IF NoStores(stores')
               THEN /\ Return(FailureReport(kind, "No serviceable stores found", options))
                    /\ UNCHANGED <<i, promises, settled, saveArg, insertCalls>>
               ELSE LoopAt(0, stores', results, errors)
            /\ UNCHANGED <<results, errors>>
    /\ UNCHANGED <<runs, accs, applied>>
    /\ UNCHANGED <<kind, options, items, locations, db, cooldowns, callLog>>

\* await Promise.all(batchPromises) resolves
BatchJoin ==
    /\ pc = "batchWait"
    /\ AllSettled
    /\ results' = PushResults(results, ApiResults)
    /\ errors' = PushErrors(errors, ApiResults)
    /\ IF HasNextBatch(i, BatchSize(options), Len(stores))
       THEN /\ pc' = "cooldown"
            /\ cooldowns' = cooldowns + 1
            /\ UNCHANGED <<i, promises, settled, saveArg, insertCalls, report>>
       ELSE /\ LoopAt(i + BatchSize(options), stores, results', errors')
            /\ cooldowns' = cooldowns
    /\ UNCHANGED <<runs, accs, applied>>
    /\ UNCHANGED <<kind, options, items, stores, locations, db, callLog>>

\* the 1000 ms timer fires: the loop goes on
CooldownElapsed ==
    /\ pc = "cooldown"
    /\ LoopAt(i + BatchSize(options), stores, results, errors)
    /\ UNCHANGED <<runs, accs, applied>>
    /\ UNCHANGED <<kind, options, items, stores, locations, results, errors,
                   db, cooldowns, callLog>>

\* the awaited save call returns
SaveReturns(outcome) ==
    /\ pc = "save"
    /\ LET rows == InsertedRows(kind, saveArg)
       IN  /\ db' = DbAfterInsert(db, rows, outcome)
           /\ Return(ReportAfterSave(SaveResult(rows, outcome), kind, locations,
                                     stores, items, results, errors, options))
    /\ UNCHANGED <<runs, accs, applied>>
    /\ UNCHANGED <<kind, options, items, stores, locations, i, promises, settled,
                   results, errors, saveArg, insertCalls, cooldowns, callLog>>

Next ==
    \/ \E k \in {"sla", "avail"} : \E opts \in OptionsOf(k) : Invoke(k, opts)
    \/ \E n \in 0..MaxUnits : ItemsRead(n)
    \/ ItemsReadFailed
    \/ \E n \in 0..MaxUnits : LocationsRead(n)
    \/ LocationsReadFailed
    \/ LocationProbeSettles
    \/ ItemProbeSettles
    \/ ApiJoin
    \/ BatchJoin
    \/ CooldownElapsed
    \/ \E outcome \in InsertOutcomes : SaveReturns(outcome)

Spec == Init /\ [][Next]_vars

\* The steps the event loop is sure to run once they are ready: a read of a
\* file ends, a request with a timeout settles (response, error or timeout),
\* a join resolves, the timer fires, the awaited save returns.  The request
\* of callSwiggyApi sets no timeout: nothing makes a pending one settle.
Scheduled ==
    \/ \E k \in {"sla", "avail"} : \E opts \in OptionsOf(k) : Invoke(k, opts)
    \/ \E n \in 0..MaxUnits : ItemsRead(n)
    \/ ItemsReadFailed
    \/ \E n \in 0..MaxUnits : LocationsRead(n)
    \/ LocationsReadFailed
    \/ ItemProbeSettles
    \/ ApiJoin
    \/ BatchJoin
    \/ CooldownElapsed
    \/ \E outcome \in InsertOutcomes : SaveReturns(outcome)

FairSpec == Spec /\ WF_vars(Scheduled)

(***************************************************************************)
(* Overlapping invocations of performItemAvailabilityCheck.  Every         *)
(* variable of the function and of processStoresInBatches is a local of    *)
(* the call; the steps of two calls interleave at their awaits.            *)
(***************************************************************************)
solo == <<pc, kind, options, items, stores, locations, i, promises, settled,
          results, errors, saveArg, db, insertCalls, cooldowns, report, callLog>>

\* options of the overlapping calls: item subset given as a string, test mode
RunOptions ==
    {o \in OptionsOf("avail") :
        o.testMode /\ ~o.returnFullData /\ o.itemIds.type = "string"}

\* the store list getStoreServiceabilityData resolves with when n locations
\* answer SERVICEABLE
RunStores(n) ==
    ServiceableStores(
        [l \in 1..n |->
            callSwiggyApi(Location(l),
                          [ok |-> TRUE, status |-> 200, statusText |-> "OK",
                           data |-> SlaBody("762611", "SERVICEABLE")],
                          [store |-> 2611, sla |-> 6, serviceable |-> TRUE])])

\* what the item request of an overlapping call does: a recognized answer
\* or a timeout
RunAnswers ==
    AxiosOk({ItemBody("true")}) \cup {e \in AxiosErrors : e.response = EmptyObj}

ArraysOf_Shared(p) == 1

\* the arrays an invocation pushes its outcomes to: processStoresInBatches
\* creates them anew in every call
ArraysOf(p) == p

\* the for loop of processStoresInBatches of invocation p at i = idx
RunLoopAt(p, idx, sts, its, acc) ==
    IF LoopContinues(idx, Len(sts))
    THEN runs' = [runs EXCEPT
                     ![p].i = idx,
                     ![p].stores = sts,
                     ![p].promises =
                         BatchPromises(BatchOf(sts, idx, BatchSize(runs[p].options)), its),
                     ![p].settled = EmptyObj,
                     ![p].pc = "batchWait"]
    ELSE runs' = [runs EXCEPT
                     ![p].i = idx,
                     ![p].stores = sts,
                     ![p].pc = "done",
                     ![p].report =
                         <<FinalReport("avail", <<>>, sts, its, acc.results,
                                       acc.errors, runs[p].options)>>]

RunInvoke(p, opts) ==
    /\ runs[p].pc = "idle"
    /\ runs' = [runs EXCEPT ![p].options = opts,
                            ![p].items = MapSeq(ItemOfId, opts.itemIds.parts),
                            ![p].pc = "stores"]
    /\ UNCHANGED <<accs, solo, applied>>

\* await getStoreServiceabilityData() resolves; processStoresInBatches starts
RunStoresFetched(p, n) ==
    /\ runs[p].pc = "stores"
    /\ n * Len(runs[p].items) <= MaxUnits
    /\ IF NoStores(RunStores(n))
       THEN /\ runs' = [runs EXCEPT
                           ![p].pc = "done",
                           ![p].report =
                               <<FailureReport("avail", "No serviceable stores found",
                                               runs[p].options)>>]
            /\ accs' = accs
       ELSE /\ accs' = [accs EXCEPT ![ArraysOf(p)] = NoOutcomes]
            /\ RunLoopAt(p, 0, RunStores(n), runs[p].items, NoOutcomes)
    /\ UNCHANGED <<solo, applied>>

RunProbeSettles(p) ==
    /\ runs[p].pc = "batchWait"
    /\ \E k \in DOMAIN runs[p].promises \ DOMAIN runs[p].settled :
          \E resp \in RunAnswers :
             runs' = [runs EXCEPT
                         ![p].settled = @ @@
                             (k :> checkItemAvailability(runs[p].promises[k].store,
                                                         runs[p].promises[k].item,
                                                         resp, "true"))]
    /\ UNCHANGED <<accs, solo, applied>>

RunBatchJoin(p) ==
    /\ runs[p].pc = "batchWait"
    /\ DOMAIN runs[p].settled = DOMAIN runs[p].promises
    /\ LET batchResults == [k \in DOMAIN runs[p].promises |-> runs[p].settled[k]]
           a == ArraysOf(p)
           acc == [results |-> PushResults(accs[a].results, batchResults),
                   errors |-> PushErrors(accs[a].errors, batchResults)]
       IN  /\ accs' = [accs EXCEPT ![a] = acc]
           /\ IF HasNextBatch(runs[p].i, BatchSize(runs[p].options), Len(runs[p].stores))
              THEN runs' = [runs EXCEPT ![p].pc = "cooldown"]
              ELSE RunLoopAt(p, runs[p].i + BatchSize(runs[p].options),
                             runs[p].stores, runs[p].items, acc)
    /\ UNCHANGED <<solo, applied>>

RunCooldownElapsed(p) ==
    /\ runs[p].pc = "cooldown"
    /\ RunLoopAt(p, runs[p].i + BatchSize(runs[p].options), runs[p].stores,
                 runs[p].items, accs[ArraysOf(p)])
    /\ UNCHANGED <<accs, solo, applied>>

RunNext ==
    \/ \E p \in Invocations : \E opts \in RunOptions : RunInvoke(p, opts)
    \/ \E p \in Invocations : \E n \in 0..MaxUnits : RunStoresFetched(p, n)
    \/ \E p \in Invocations : RunProbeSettles(p)
    \/ \E p \in Invocations : RunBatchJoin(p)
    \/ \E p \in Invocations : RunCooldownElapsed(p)

OverlapSpec == Init /\ [][RunNext]_vars

(***************************************************************************)
(* The dashboard's classifiers (frontend).                                 *)
(***************************************************************************)
DigitChars == <<"0", "1", "2", "3", "4", "5", "6", "7", "8", "9">>

IsDigit(c) == \E d \in DOMAIN DigitChars : DigitChars[d] = c

DigitOf(c) == (CHOOSE d \in DOMAIN DigitChars : DigitChars[d] = c) - 1

\* the decimal digits of n, as the API writes them in "16 Mins"
RECURSIVE Digits(_)
Digits(n) ==
    IF n < 10 THEN <<DigitChars[n + 1]>>
    ELSE Digits(n \div 10) \o <<DigitChars[(n % 10) + 1]>>

MinsLabel(n) == StringValue(Digits(n) \o <<" ", "M", "i", "n", "s">>)

\* sla.replace(/\D/g, "")
StripNonDigits(chars) == SelectSeq(chars, IsDigit)

\* parseInt of a string of digits: <<n>>, or <<>> for NaN
RECURSIVE parseInt(_)
parseInt(chars) ==
    IF chars = <<>> THEN <<>>
    ELSE IF Len(chars) = 1 THEN <<DigitOf(chars[1])>>
    ELSE <<10 * parseInt(SubSeq(chars, 1, Len(chars) - 1))[1]
              + DigitOf(chars[Len(chars)])>>

\* minutes > k, false when minutes is NaN
Gt(minutes, k) == minutes # <<>> /\ minutes[1] > k

CloseCircleTwoTone == [element |-> "CloseCircleTwoTone", twoToneColor |-> "#ff4d4f"]
CheckCircleTwoTone == [element |-> "CheckCircleTwoTone", twoToneColor |-> "#52c41a"]

getSlaTag(sla) ==
    IF \/ ~IsObject(sla)
       \/ sla.chars = <<>>
       \/ sla.chars = <<"N", "/", "A">>
    THEN CloseCircleTwoTone
    ELSE LET minutes == parseInt(StripNonDigits(sla.chars))
             color == IF Gt(minutes, 30) THEN "error"
                      ELSE IF Gt(minutes, 20) THEN "warning"
                      ELSE "success"
         IN  [element |-> "Tag", color |-> color, children |-> sla]

getAvailabilityTag(available) ==
    IF available = "true" THEN CheckCircleTwoTone
    ELSE IF available = "false" THEN CloseCircleTwoTone
    ELSE CloseCircleTwoTone

(***************************************************************************)
(* The normalizers, the item probe and the classifiers applied on their    *)
(* own to one argument.                                                    *)
(***************************************************************************)
\* what extractSlaData can be handed
SlaPayloads ==
    SlaBodies \cup
    { UndefinedValue, NullValue, EmptyObj, [data |-> NullValue],
      [data |-> [storeId |-> "762611", storeDetails |-> NullValue]],
      [data |-> [slaString |-> "16 Mins", storeDetails |-> [locality |-> "Location"]]] }

ItemWith(fields) ==
    [data |-> [item |-> fields,
               storeDetails |-> [id |-> "1385841",
                                 locality |-> "Indiranagar",
                                 name |-> "Instamart"]]]

\* answers of the item endpoint that are objects
ItemAnswers ==
    ItemBodies \cup
    { ItemBody("false"),
      EmptyObj,
      [data |-> NullValue],
      [data |-> [item |-> [inStockAndSlotAvailable |-> "true"],
                 storeDetails |-> NullValue]],
      ItemWith([display_name |-> "Milk", brand |-> "Amul"]),
      ItemWith([inStockAndSlotAvailable |-> "true",
                variations |-> <<[id |-> "v1", quantity |-> "500 ml"]>>]),
      ItemWith([inStockAndSlotAvailable |-> "true",
                variations |-> <<[id |-> "v1", quantity |-> "500 ml"], NullValue>>]) }

\* what extractItemAvailabilityData can be handed
ItemPayloads == ItemAnswers \cup {UndefinedValue, NullValue}

\* labels handed to getSlaTag
SlaLabels ==
    { MinsLabel(n) : n \in 0..MaxMinutes } \cup
    { UndefinedValue, NullValue, StringValue(<<>>),
      StringValue(<<"N", "/", "A">>), StringValue(<<"S", "o", "o", "n">>) }

Applications ==
    { [fn |-> "extractSlaData", arg |-> r, ret |-> <<>>] : r \in SlaPayloads }
    \cup
    { [fn |-> "extractItemAvailabilityData",
       arg |-> [response |-> r, itemId |-> ProductIds[1],
                itemInternalName |-> "csv_" \o ProductIds[1]],
       ret |-> <<>>] : r \in ItemPayloads }
    \cup
    { [fn |-> "checkItemAvailability",
       arg |-> [store |-> RunStores(1)[1], item |-> CsvItems(1)[1],
                resp |-> r, draw |-> d],
       ret |-> <<>>] : r \in AxiosOk(ItemAnswers) \cup AxiosErrors, d \in AvailDraws }
    \cup
    { [fn |-> "getSlaTag", arg |-> l, ret |-> <<>>] : l \in SlaLabels }
    \cup
    { [fn |-> "getAvailabilityTag", arg |-> a, ret |-> <<>>] :
         a \in {"true", "false", Null, Undefined} }

FunctionInit == Idle /\ applied \in Applications

Returns(fn, value) ==
    /\ applied.fn = fn
    /\ applied.ret = <<>>
    /\ applied' = [applied EXCEPT !.ret = <<value>>]
    /\ UNCHANGED <<solo, runs, accs>>

Apply_extractSlaData ==
    Returns("extractSlaData", extractSlaData(applied.arg))

Apply_extractItemAvailabilityData ==
    Returns("extractItemAvailabilityData",
            extractItemAvailabilityData(applied.arg.response, applied.arg.itemId,
                                        applied.arg.itemInternalName))

Apply_checkItemAvailability ==
    Returns("checkItemAvailability",
            checkItemAvailability(applied.arg.store, applied.arg.item,
                                  applied.arg.resp, applied.arg.draw))

Apply_getSlaTag == Returns("getSlaTag", getSlaTag(applied.arg))

Apply_getAvailabilityTag ==
    Returns("getAvailabilityTag", getAvailabilityTag(applied.arg))

FunctionNext ==
    \/ Apply_extractSlaData
    \/ Apply_extractItemAvailabilityData
    \/ Apply_checkItemAvailability
    \/ Apply_getSlaTag
    \/ Apply_getAvailabilityTag

FunctionSpec == FunctionInit /\ [][FunctionNext]_vars

(***************************************************************************)
(* Vocabulary of the properties.                                           *)
(***************************************************************************)
Rep == report[1]

\* the invocation has returned a report of a completed check
Completed == pc = "done" /\ Rep.success

\* the probing phase is over and was not aborted
ProbingComplete == pc = "save" \/ Completed

\* the work units of the invocation
UnitSet ==
    IF kind = "sla"
    THEN {[location |-> locations[l]] : l \in DOMAIN locations}
    ELSE {[store |-> stores[s], item |-> items[t]] :
             s \in DOMAIN stores, t \in DOMAIN items}

\* the work unit an outcome belongs to
UnitOf(result) ==
    IF kind = "sla"
    THEN [location |-> result.location]
    ELSE [store |-> result.store,
          item |-> [productId |-> result.itemId,
                    itemInternalName |-> result.itemInternalName]]

\* how often unit u occurs in a list of outcomes
Occ(list, u) == Cardinality({k \in DOMAIN list : UnitOf(list[k]) = u})

InFlight == DOMAIN promises \ DOMAIN settled

Ceil(n, b) == (n + b - 1) \div b

(***************************************************************************)
(* C1: for every invocation that completes probing, summary.successful +   *)
(* summary.failed is the number of work units: totalChecks = totalStores * *)
(* totalItems for the availability check, total = the number of locations  *)
(* for the SLA check.                                                      *)
(***************************************************************************)
C1_CountsAddUp ==
    Completed =>
       IF kind = "avail"
       THEN /\ Rep.summary.successful + Rep.summary.failed = Rep.summary.totalChecks
            /\ Rep.summary.totalChecks = Len(stores) * Len(items)
            /\ Rep.summary.totalStores = Len(stores)
            /\ Rep.summary.totalItems = Len(items)
       ELSE /\ Rep.summary.successful + Rep.summary.failed = Rep.summary.total
            /\ Rep.summary.total = Len(locations)

C1_Witness ==
    /\ Completed
    /\ kind = "avail"
    /\ Rep.summary.successful = 1
    /\ Rep.summary.failed = 1

(***************************************************************************)
(* C2: after the batch run every work unit occurs exactly once in the      *)
(* success list and the error list taken together, whatever the order in   *)
(* which the concurrent probes completed.                                  *)
(***************************************************************************)
C2_ExactlyOneOutcome ==
    ProbingComplete =>
       /\ \A u \in UnitSet : Occ(results, u) + Occ(errors, u) = 1
       /\ Len(results) + Len(errors) = Cardinality(UnitSet)

C2_Witness ==
    /\ ProbingComplete
    /\ kind = "avail"
    /\ Len(items) = 2
    /\ Len(results) = 1
    /\ Len(errors) = 1

(***************************************************************************)
(* C3: chunks run in list order and each is drained before the next        *)
(* starts: while a chunk is awaited its probes are those of the stores     *)
(* i+1..i+batchSize, every unit of an earlier store has its outcome, and   *)
(* no unit of a later store has been started or has an outcome; during the *)
(* delay after a chunk nothing is in flight and the chunk has its outcomes.*)
(***************************************************************************)
C3_ChunksInOrder ==
    pc \in {"batchWait", "cooldown"} =>
       LET last == Min(i + BatchSize(options), Len(stores))
           drained == IF pc = "cooldown" THEN last ELSE i
       IN  /\ \A k \in DOMAIN promises :
                 \E s \in (i + 1)..last : promises[k].store = stores[s]
           /\ \A s \in DOMAIN stores : \A t \in DOMAIN items :
                 LET u == [store |-> stores[s], item |-> items[t]]
                 IN  /\ s <= drained => Occ(results, u) + Occ(errors, u) = 1
                     /\ s > drained => Occ(results, u) + Occ(errors, u) = 0
           /\ pc = "cooldown" => InFlight = {}

C3_Witness ==
    /\ pc = "batchWait"
    /\ i > 0
    /\ InFlight # {}
    /\ Len(errors) > 0

C5_NoAbort ==
    (kind = "avail" /\ Len(stores) > 0) =>
       /\ pc \in {"batchWait", "cooldown", "save", "done"}
       /\ pc \in {"save", "done"} =>
             /\ i >= Len(stores)
             /\ \A u \in UnitSet : Occ(results, u) + Occ(errors, u) = 1
       /\ pc = "done" => Rep.success
       /\ \A e \in callLog :
             e[2] = "failed" =>
                \/ Occ(errors, e[1]) = 1
                \/ \E k \in DOMAIN settled : promises[k] = e[1]

C5_FailuresDoNotAbort ==
    /\ []C5_NoAbort
    /\ (kind = "avail" /\ Len(stores) > 0) ~>
          (/\ Completed
           /\ Rep.success
           /\ \A u \in UnitSet : Occ(results, u) + Occ(errors, u) = 1)

C5_Witness ==
    /\ Completed
    /\ kind = "avail"
    /\ cooldowns = 1
    /\ Len(errors) = 1
    /\ errors[1].store = stores[1]
    /\ Len(results) = 1

\* the work units whose outbound call failed
FailedUnits == {e[1] : e \in {x \in callLog : x[2] = "failed"}}

\* the outcome carries the synthesized fallback record of its check
CarriesFallback(r) ==
    IF kind = "sla"
    THEN /\ Has(r, "slaData")
         /\ r.slaData \in {extractSlaData(mockApiResponse(d)) : d \in SlaDraws}
    ELSE /\ Has(r, "availabilityData")
         /\ r.availabilityData \in
               {mockAvailabilityData(r.store, UnitOf(r).item, d) : d \in AvailDraws}

(***************************************************************************)
(* C6: every work unit whose outbound call failed (timeout or non-2xx      *)
(* answer) gets an outcome that carries the error and the synthesized      *)
(* fallback record; it is placed in the error list, never in the success   *)
(* list, and the report counts it in summary.failed, not in                *)
(* summary.successful.                                                     *)
(***************************************************************************)
C6_FailedProbeIsFailure ==
    /\ \A u \in FailedUnits :
          /\ Occ(results, u) = 0
          /\ \/ Occ(errors, u) = 1
             \/ \E k \in DOMAIN settled : promises[k] = u
          /\ \A k \in DOMAIN settled :
                promises[k] = u => IsError(settled[k]) /\ CarriesFallback(settled[k])
          /\ \A j \in DOMAIN errors :
                UnitOf(errors[j]) = u => IsError(errors[j]) /\ CarriesFallback(errors[j])
    /\ ProbingComplete =>
          /\ \A u \in FailedUnits : Occ(errors, u) = 1
          /\ Len(errors) = Cardinality(FailedUnits)
    /\ Completed =>
          /\ Rep.summary.failed = Cardinality(FailedUnits)
          /\ Rep.summary.successful = Cardinality(UnitSet \ FailedUnits)
          /\ Len(Rep.errors) = Cardinality(FailedUnits)
          /\ Len(Rep.results) = Cardinality(UnitSet \ FailedUnits)

C6_Witness ==
    /\ Completed
    /\ \E u \in FailedUnits : \E v \in FailedUnits :
          /\ <<u, "failed">> \in callLog
          /\ u # v
    /\ Rep.summary.failed = 2
    /\ Rep.summary.successful = 0

\* the work units whose call succeeded with a payload of no known shape
UnrecognizedUnits == {e[1] : e \in {x \in callLog : x[2] = "unrecognized"}}

\* the outcomes, joined or still waiting for the join, of work unit u
OutcomesOf(u) ==
    {results[j] : j \in {x \in DOMAIN results : UnitOf(results[x]) = u}}
    \cup {errors[j] : j \in {x \in DOMAIN errors : UnitOf(errors[x]) = u}}
    \cup {settled[k] : k \in {x \in DOMAIN settled : promises[x] = u}}

(***************************************************************************)
(* C7 as claimed: a probe whose call succeeds with a payload of no known   *)
(* shape is a Success outcome whose record carries the unknown sentinels   *)
(* (available and itemName unknown for availability; storeId and SLA label *)
(* unknown for serviceability) and is counted as successful.               *)
(***************************************************************************)
C7_UnrecognizedCarriesSentinels ==
    \A u \in UnrecognizedUnits :
       /\ Occ(errors, u) = 0
       /\ \A r \in OutcomesOf(u) :
             /\ IsSuccess(r)
             /\ IF kind = "sla"
                THEN r.slaData.storeId = "N/A" /\ r.slaData.slaString = "N/A"
                ELSE /\ r.availabilityData.available = Null
                     /\ r.availabilityData.itemName = Null

(***************************************************************************)
(* C7 as amended: a probe whose call succeeds with a payload of no known   *)
(* shape is a Success outcome, placed in the success list and counted in   *)
(* summary.successful.  For availability its record is the all-unknown     *)
(* record (available and itemName null).  For serviceability callSwiggyApi *)
(* replaces the all-unknown record by the synthesized mock record, so the  *)
(* outcome carries a plausible storeId and SLA label, never the sentinels. *)
(***************************************************************************)
C7_UnrecognizedIsSuccess ==
    /\ \A u \in UnrecognizedUnits :
          /\ Occ(errors, u) = 0
          /\ OutcomesOf(u) # {}
          /\ \A r \in OutcomesOf(u) :
                /\ IsSuccess(r)
                /\ IF kind = "sla"
                   THEN /\ r.slaData \in
                              {extractSlaData(mockApiResponse(d)) : d \in SlaDraws}
                        /\ r.slaData.storeId # "N/A"
                        /\ r.slaData.slaString # "N/A"
                   ELSE r.availabilityData =
                           NoAvailabilityData(r.itemId, r.itemInternalName)
    /\ ProbingComplete => \A u \in UnrecognizedUnits : Occ(results, u) = 1
    /\ Completed =>
          /\ Rep.summary.successful >= Cardinality(UnrecognizedUnits)
          /\ Rep.summary.failed <= Cardinality(UnitSet \ UnrecognizedUnits)
          /\ (kind = "avail" /\ ~options.returnFullData) =>
                \A u \in UnrecognizedUnits :
                   \E j \in DOMAIN Rep.results :
                      /\ Rep.results[j].itemId = u.item.productId
                      /\ Rep.results[j].spotName = u.store.spotName
                      /\ Rep.results[j].available = Null
                      /\ Rep.results[j].itemName = Null

C7_Witness ==
    /\ Completed
    /\ kind = "sla"
    /\ \E u \in UnrecognizedUnits : Occ(results, u) = 1
    /\ Rep.summary.successful = 2
    /\ Rep.summary.failed = 0

\* every work unit has exactly one outcome and no probe is pending
AllProbed ==
    /\ InFlight = {}
    /\ \A u \in UnitSet : Occ(results, u) + Occ(errors, u) = 1

(***************************************************************************)
(* C8: a persistence failure never changes the report: once the bulk       *)
(* insert has been called, whether it stored the rows or returned an error *)
(* or threw, the report has success = true, its summary counts are the     *)
(* lengths of the success and error lists, and its result lists are those  *)
(* that were handed to the save.                                           *)
(***************************************************************************)
C8_SaveFailureKeepsReport ==
    (pc = "done" /\ insertCalls = 1) =>
       /\ Rep.success
       /\ Rep.summary.successful = Len(results)
       /\ Rep.summary.failed = Len(errors)
       /\ Rep.summary.successful + Rep.summary.failed = Cardinality(UnitSet)
       /\ Rep.results = IF options.returnFullData THEN results ELSE saveArg
       /\ Rep.errors = SimplifiedErrors(kind, errors)
       /\ db \in {<<>>, InsertedRows(kind, saveArg)}

C8_Witness ==
    /\ pc = "done"
    /\ insertCalls = 1
    /\ db = <<>>
    /\ Rep.success
    /\ Len(Rep.results) = 1
    /\ Len(Rep.errors) = 1

(***************************************************************************)
(* C9: storage is written by at most one bulk insert per invocation, and   *)
(* the insert is called only after every probe of every chunk has          *)
(* completed: while probes are awaited or a cooldown runs nothing has been *)
(* inserted, and storage holds either nothing or the rows of that one      *)
(* insert.                                                                 *)
(***************************************************************************)
C9_SingleInsertAfterProbing ==
    /\ insertCalls <= 1
    /\ insertCalls = 1 => pc \in {"save", "done"} /\ AllProbed
    /\ pc \in {"idle", "items", "locations", "apiWait", "batchWait", "cooldown"} =>
          insertCalls = 0 /\ db = <<>>
    /\ pc = "save" => db = <<>> /\ AllProbed
    /\ db # <<>> =>
          /\ pc = "done"
          /\ insertCalls = 1
          /\ db = InsertedRows(kind, saveArg)
          /\ Len(db) = Len(results)

C9_Witness ==
    /\ pc = "done"
    /\ kind = "avail"
    /\ cooldowns = 1
    /\ insertCalls = 1
    /\ Len(db) = 2

(***************************************************************************)
(* C10: with options.testMode true the invocation never calls the bulk     *)
(* insert and leaves storage unchanged, and the success flag, summary,     *)
(* results and errors of its report equal those of the report the same     *)
(* probe outcomes give with the other value of testMode.                   *)
(***************************************************************************)
C10_TestModeNoInsert ==
    /\ (pc # "idle" /\ options.testMode) =>
          /\ insertCalls = 0
          /\ db = <<>>
          /\ saveArg = <<>>
          /\ pc # "save"
    /\ Completed =>
          LET opts == [options EXCEPT !.testMode = ~options.testMode]
              rows == InsertedRows(kind, SimplifiedResults(kind, results))
              other == IF ShouldSave(opts)
                       THEN ReportAfterSave(SaveResult(rows, "ok"), kind, locations,
                                            stores, items, results, errors, opts)
                       ELSE FinalReport(kind, locations, stores, items, results,
                                        errors, opts)
          IN  /\ Rep.success = other.success
              /\ Rep.summary = other.summary
              /\ Rep.results = other.results
              /\ Rep.errors = other.errors

C10_Witness ==
    /\ Completed
    /\ options.testMode
    /\ Len(Rep.results) = 1
    /\ Len(Rep.errors) = 1
    /\ insertCalls = 0

\* the row stored for outcome r: whether it is r's projection
RowOf(row, r) ==
    IF kind = "sla"
    THEN /\ row.spot_name = r.location.societyName
         /\ row.spot_lat = r.location.lat
         /\ row.store_id = r.slaData.storeId
         /\ row.sla = r.slaData.slaString
         /\ row.serviceability = r.slaData.serviceability
    ELSE /\ row.item_id = r.itemId
         /\ row.spot_name = r.store.spotName
         /\ row.available = r.availabilityData.available
         /\ row.store_id = Or(r.availabilityData.storeId, r.store.storeId)

(***************************************************************************)
(* C11: the records handed to the save, and the rows the bulk insert       *)
(* stores, are the projections of the successful outcomes, one for each    *)
(* and in the order of the success list; no outcome of a failed probe is   *)
(* among them.                                                             *)
(***************************************************************************)
C11_InsertedAreSuccesses ==
    /\ pc = "save" \/ (pc = "done" /\ insertCalls = 1) =>
          /\ Len(saveArg) = Len(results)
          /\ \A j \in DOMAIN results :
                /\ IsSuccess(results[j])
                /\ UnitOf(results[j]) \notin FailedUnits
                /\ saveArg[j].timestamp = results[j].timestamp
                /\ IF kind = "sla"
                   THEN /\ saveArg[j].locationMeta = LocationMeta(results[j].location)
                        /\ saveArg[j].storeId = results[j].slaData.storeId
                        /\ saveArg[j].sla = results[j].slaData.slaString
                   ELSE /\ saveArg[j].itemId = results[j].itemId
                        /\ saveArg[j].spotName = results[j].store.spotName
                        /\ saveArg[j].available = results[j].availabilityData.available
    /\ db # <<>> =>
          /\ Len(db) = Len(results)
          /\ \A j \in DOMAIN db : RowOf(db[j], results[j])
          /\ \A j \in DOMAIN db : \A e \in DOMAIN errors : ~RowOf(db[j], errors[e])

C11_Witness ==
    /\ pc = "done"
    /\ Len(db) = 1
    /\ Len(results) = 1
    /\ Len(errors) = 1
    /\ RowOf(db[1], results[1])

(***************************************************************************)
(* C12 as claimed: a failure to read the location list or the item list    *)
(* aborts the invocation: its report has success = false and no probe is   *)
(* issued against a partial or substituted unit list.                      *)
(***************************************************************************)
C12_ReadFailureAborts ==
    (ItemListReadFailed \in callLog \/ LocationListReadFailed \in callLog) =>
       /\ promises = <<>>
       /\ FailedUnits = {} /\ UnrecognizedUnits = {}
       /\ pc = "done" => ~Rep.success

(***************************************************************************)
(* C12 as amended: a failure to read the location list aborts the          *)
(* invocation: its report has success = false, no probe is issued and      *)
(* nothing is stored.  A failure to read the item list does not abort it:  *)
(* getItemsToCheck substitutes the four default items and the check goes   *)
(* on, probing every serviceable store for each of them.                   *)
(***************************************************************************)
C12_LocationFailureAborts ==
    /\ LocationListReadFailed \in callLog =>
          /\ pc = "done"
          /\ ~Rep.success
          /\ locations = <<>> /\ promises = <<>>
          /\ results = <<>> /\ errors = <<>>
          /\ FailedUnits = {} /\ UnrecognizedUnits = {}
          /\ insertCalls = 0 /\ db = <<>>
    /\ ItemListReadFailed \in callLog =>
          /\ kind = "avail"
          /\ Len(items) = Len(defaultItems)
          /\ \A t \in DOMAIN items : items[t].productId = defaultItems[t]
          /\ pc = "batchWait" =>
                Len(promises) = (Min(i + BatchSize(options), Len(stores)) - i) * 4
          /\ Completed => /\ Rep.summary.totalItems = 4
                          /\ Rep.summary.totalChecks = 4 * Len(stores)
                          /\ Len(results) + Len(errors) = 4 * Len(stores)

C12_Witness ==
    /\ ItemListReadFailed \in callLog
    /\ Completed
    /\ Len(results) = 3
    /\ Len(errors) = 1

C12_WitnessLocations ==
    /\ LocationListReadFailed \in callLog
    /\ pc = "done"

\* the invocation has returned and neither the read of the location list nor
\* the parsing of options.itemIds has failed
RanToEnd ==
    /\ pc = "done"
    /\ LocationListReadFailed \notin callLog
    /\ options.itemIds.type # "array"

(***************************************************************************)
(* C13 as claimed: an invocation whose unit list is empty is not an error: *)
(* it returns success = true with all counts zero and empty result and     *)
(* error lists, having issued no work-unit probe and no cooldown.          *)
(***************************************************************************)
C13_EmptyListSucceeds ==
    (RanToEnd /\ UnitSet = {}) =>
       /\ Rep.success
       /\ Rep.summary.successful = 0 /\ Rep.summary.failed = 0
       /\ Rep.results = <<>> /\ Rep.errors = <<>>
       /\ cooldowns = 0

(***************************************************************************)
(* C13 as amended: the serviceability check on an empty location list      *)
(* returns success = true with all counts zero and empty lists, without a  *)
(* probe or an insert.  The availability check with no serviceable store   *)
(* is an error: it returns success = false with "No serviceable stores     *)
(* found" and never enters the batch loop.  With stores but an empty item  *)
(* list it returns success = true with zero checks and a success rate of   *)
(* "NaN%", after the cooldown between every two chunks of stores.          *)
(***************************************************************************)
C13_EmptyListOutcome ==
    /\ (RanToEnd /\ kind = "sla" /\ locations = <<>>) =>
          /\ Rep.success
          /\ Rep.summary = [total |-> 0, successful |-> 0, failed |-> 0]
          /\ Rep.results = <<>> /\ Rep.errors = <<>>
          /\ promises = <<>> /\ cooldowns = 0
          /\ insertCalls = 0 /\ db = <<>>
    /\ (RanToEnd /\ kind = "avail" /\ stores = <<>>) =>
          /\ ~Rep.success
          /\ Rep.error = "No serviceable stores found"
          /\ ~Has(Rep, "summary")
          /\ results = <<>> /\ errors = <<>>
          /\ i = 0 /\ cooldowns = 0
          /\ insertCalls = 0 /\ db = <<>>
    /\ (RanToEnd /\ kind = "avail" /\ stores # <<>> /\ items = <<>>) =>
          /\ Rep.success
          /\ Rep.summary.totalChecks = 0
          /\ Rep.summary.successful = 0 /\ Rep.summary.failed = 0
          /\ Rep.summary.successRate = "NaN%"
          /\ Rep.results = <<>> /\ Rep.errors = <<>>
          /\ FailedUnits = {} /\ UnrecognizedUnits = {}
          /\ cooldowns = Ceil(Len(stores), BatchSize(options)) - 1
          /\ insertCalls = 0 /\ db = <<>>

C13_Witness ==
    /\ RanToEnd
    /\ kind = "avail"
    /\ locations = <<>>
    /\ stores = <<>>
    /\ ~Rep.success

(***************************************************************************)
(* C14: when the caller supplies an explicit item subset, as a comma       *)
(* separated string or as the sequence of identifiers the HTTP handler and *)
(* the scheduled trigger pass, the items checked are that subset, the item *)
(* list file is not read, and every chunk issues one probe per pair of one *)
(* of its stores and one item of the subset.                               *)
(***************************************************************************)
C14_SubsetCrossProduct ==
    (kind = "avail" /\ options.itemIds.type \in {"string", "array"}) =>
       /\ pc # "items"
       /\ ItemListReadFailed \notin callLog
       /\ items = MapSeq(ItemOfId, options.itemIds.parts)
       /\ pc = "batchWait" =>
             /\ promises = BatchPromises(BatchOf(stores, i, BatchSize(options)),
                                         MapSeq(ItemOfId, options.itemIds.parts))
             /\ Len(promises) = (Min(i + BatchSize(options), Len(stores)) - i)
                                   * Len(options.itemIds.parts)
       /\ (pc = "done" /\ stores # <<>>) =>
             /\ Rep.success
             /\ Rep.summary.totalItems = Len(options.itemIds.parts)
       /\ (pc = "done" /\ stores = <<>>) =>
             Rep.error \in {"No serviceable stores found",
                            "Failed to fetch store serviceability data"}

\* the subset given as a sequence of identifiers: the invocation fails before
\* it reads a location or issues a probe
C14_Witness ==
    /\ pc = "done"
    /\ kind = "avail"
    /\ options.itemIds.type = "array"
    /\ ~Rep.success
    /\ Rep.error = "options.itemIds.split is not a function"
    /\ items = <<>> /\ locations = <<>> /\ promises = <<>>

\* the outbound calls made for work units so far: <<unit, what the call did>>
ProbeLog == {e \in callLog : e[2] \in {"recognized", "unrecognized", "failed"}}

\* the probes awaited are those of work units
AwaitingUnits == (kind = "sla" /\ pc = "apiWait") \/ pc = "batchWait"

C16_EventuallyReturns == (pc # "idle") ~> (pc = "done")

\* probes of callSwiggyApi are pending, for the work units of the
\* serviceability check or for the store list of the availability check
C16_Witness ==
    /\ pc = "apiWait"
    /\ kind = "sla"
    /\ Cardinality(InFlight) = 1
    /\ Cardinality(DOMAIN settled) = 1

\* the invocation was made by one of the HTTP handlers and has returned
HandlerDone == pc = "done" /\ options \in HandlerOptions(kind)

\* the response of the handler that made the invocation
Response == HttpResponse(kind, AwaitedCheck(Rep))

(***************************************************************************)
(* C17: the HTTP caller of a check endpoint gets a 200 report whenever the *)
(* check ran to its report, however many probes failed, and a 5xx response *)
(* when the read of the unit list failed or an internal error occurred.    *)
(***************************************************************************)
C17_HttpStatus ==
    HandlerDone =>
       /\ Rep.success => Response.status = 200 /\ Response.body.success
       /\ (\/ LocationListReadFailed \in callLog
           \/ options.itemIds.type = "array") => Response.status >= 500

\* the read of the location list failed and the handler answers 200 with
\* success = false
C17_Witness ==
    /\ HandlerDone
    /\ LocationListReadFailed \in callLog
    /\ Response.status = 200
    /\ ~Response.body.success
    /\ Response.body.summary = Undefined

(***************************************************************************)
(* C18: every report an invocation returns, with success true or false and *)
(* for both checks, has a summary that holds the counts, the success rate  *)
(* and the duration.                                                       *)
(***************************************************************************)
C18_ReportHasSummary ==
    pc = "done" =>
       /\ Has(Rep, "summary")
       /\ Has(Rep.summary, "successful") /\ Has(Rep.summary, "failed")
       /\ Has(Rep.summary, "total") \/ Has(Rep.summary, "totalChecks")
       /\ Has(Rep.summary, "successRate")
       /\ Has(Rep.summary, "duration")

\* a failure report: it has no summary at all
C18_Witness ==
    /\ pc = "done"
    /\ kind = "sla"
    /\ ~Rep.success
    /\ ~Has(Rep, "summary")
    /\ DOMAIN Rep = {"success", "message", "error", "timestamp", "options"}

\* the record an outcome carries
RecordOf(r) == IF kind = "sla" THEN r.slaData ELSE r.availabilityData

\* the fields of the record of a successful probe
RecordFields ==
    IF kind = "sla" THEN DOMAIN NotAvailableSla
    ELSE DOMAIN NoAvailabilityData("", "")

\* the outcomes of the work units joined so far
JoinedOutcomes ==
    {results[j] : j \in DOMAIN results} \cup {errors[j] : j \in DOMAIN errors}

(***************************************************************************)
(* C19: every outcome, success or failure, carries a structurally complete *)
(* record: the fallback record of a failed probe has the same fields as    *)
(* the record of a successful probe, and the identifying fields are never  *)
(* undefined.                                                              *)
(***************************************************************************)
C19_CompleteRecords ==
    \A r \in JoinedOutcomes :
       /\ DOMAIN RecordOf(r) = RecordFields
       /\ RecordOf(r).storeId # Undefined

\* a failed availability probe beside a successful one: the fallback record
\* has seven of the twelve fields
C19_Witness ==
    /\ kind = "avail"
    /\ Len(results) = 1 /\ Len(errors) = 1
    /\ DOMAIN results[1].availabilityData = RecordFields
    /\ Cardinality(RecordFields) = 12
    /\ DOMAIN errors[1].availabilityData =
          {"itemId", "itemInternalName", "available", "itemName", "storeId",
           "storeLocality", "storeDescription"}

\* an entry of the report's error list carries a record, nested or flattened
EntryCarriesRecord(e) ==
    IF kind = "sla"
    THEN \/ Has(e, "slaData")
         \/ /\ Has(e, "storeId") /\ e.storeId # Null
            /\ Has(e, "sla") /\ e.sla # Null
    ELSE \/ Has(e, "availabilityData")
         \/ Has(e, "available")

(***************************************************************************)
(* C20 as claimed: for each failed probe the failed entry of the report    *)
(* carries the probe's synthesized fallback record, with a non-null        *)
(* storeId and a non-null SLA label.                                       *)
(***************************************************************************)
C20_ReportedFailureHasFallback ==
    Completed =>
       /\ Len(Rep.errors) = Cardinality(FailedUnits)
       /\ \A j \in DOMAIN Rep.errors : EntryCarriesRecord(Rep.errors[j])

(***************************************************************************)
(* C20 as amended: for each failed probe the outcome kept in the error     *)
(* list carries the synthesized fallback record, with a storeId and, for   *)
(* serviceability, an SLA label that are neither null nor "N/A"; the       *)
(* failed entry of the report is the projection of that outcome onto the   *)
(* location (or store and item), the error message and the timestamp, and  *)
(* carries no record.                                                      *)
(***************************************************************************)
C20_ReportedFailureIsProjection ==
    /\ \A j \in DOMAIN errors :
          /\ UnitOf(errors[j]) \in FailedUnits
          /\ RecordOf(errors[j]).storeId \notin {Null, Undefined, "N/A"}
          /\ kind = "sla" =>
                RecordOf(errors[j]).slaString \notin {Null, Undefined, "N/A"}
    /\ Completed =>
          /\ Len(Rep.errors) = Len(errors)
          /\ \A j \in DOMAIN Rep.errors :
                /\ Rep.errors[j].error = errors[j].error
                /\ Rep.errors[j].timestamp = errors[j].timestamp
                /\ ~EntryCarriesRecord(Rep.errors[j])
                /\ IF kind = "sla"
                   THEN /\ DOMAIN Rep.errors[j] = {"locationMeta", "error", "timestamp"}
                        /\ Rep.errors[j].locationMeta = LocationMeta(errors[j].location)
                   ELSE /\ DOMAIN Rep.errors[j] =
                              {"storeId", "itemId", "spotName", "spotArea", "spotCity",
                               "coordinates", "error", "timestamp"}
                        /\ Rep.errors[j].storeId = errors[j].store.storeId
                        /\ Rep.errors[j].itemId = errors[j].itemId

C20_Witness ==
    /\ Completed
    /\ kind = "sla"
    /\ Len(locations) = 2
    /\ Len(Rep.errors) = 1
    /\ errors[1].error = "timeout of 10000ms exceeded"
    /\ errors[1].location = locations[2]
    /\ errors[1].slaData.storeId = "764999"

\* the work units of overlapping invocation p
RunUnits(p) ==
    {[store |-> runs[p].stores[s], item |-> runs[p].items[t]] :
        s \in DOMAIN runs[p].stores, t \in DOMAIN runs[p].items}

\* how often work unit u occurs in a list of outcomes or of report entries
RunOcc(list, u) ==
    Cardinality({k \in DOMAIN list :
                    /\ list[k].itemId = u.item.productId
                    /\ IF Has(list[k], "store")
                       THEN list[k].store = u.store
                       ELSE list[k].spotName = u.store.spotName})

\* the stores of invocation p whose chunks have been joined
RunDrained(p) ==
    IF runs[p].pc = "cooldown"
    THEN Min(runs[p].i + BatchSize(runs[p].options), Len(runs[p].stores))
    ELSE runs[p].i

(***************************************************************************)
(* C21: overlapping invocations are isolated: while an invocation runs,    *)
(* its arrays hold one outcome for each unit of its own drained chunks and *)
(* nothing else; its report holds exactly one entry for each of its own    *)
(* units and its counts add up to its own number of units, whatever the    *)
(* other invocation does and whether it ran before, during or after.       *)
(***************************************************************************)
C21_InvocationsIsolated ==
    \A p \in Invocations :
       /\ runs[p].pc \in {"batchWait", "cooldown"} =>
             LET acc == accs[p]
             IN  /\ Len(acc.results) + Len(acc.errors)
                       = RunDrained(p) * Len(runs[p].items)
                 /\ \A u \in RunUnits(p) :
                       RunOcc(acc.results, u) + RunOcc(acc.errors, u)
                          = IF \E s \in 1..RunDrained(p) : runs[p].stores[s] = u.store
                            THEN 1 ELSE 0
       /\ (runs[p].pc = "done" /\ runs[p].stores # <<>>) =>
             LET rep == runs[p].report[1]
             IN  /\ rep.success
                 /\ rep.summary.totalChecks = Cardinality(RunUnits(p))
                 /\ rep.summary.successful + rep.summary.failed
                       = Cardinality(RunUnits(p))
                 /\ Len(rep.results) = rep.summary.successful
                 /\ Len(rep.errors) = rep.summary.failed
                 /\ \A u \in RunUnits(p) :
                       RunOcc(rep.results, u) + RunOcc(rep.errors, u) = 1

\* invocation 1 has returned its report of two units while invocation 2,
\* started meanwhile over other items, is between its chunks
C21_Witness ==
    /\ runs[1].pc = "done"
    /\ runs[1].report[1].success
    /\ Len(runs[1].report[1].results) = 1
    /\ Len(runs[1].report[1].errors) = 1
    /\ runs[2].pc = "cooldown"
    /\ Len(accs[2].errors) = 1
    /\ runs[1].items # runs[2].items

\* C22: when the availability check builds its store list from the location
\* probes, a location whose probe failed is not taken as a serviceable store:
\* every store of the list comes from a location probe that did not fail.
C22_FailedLocationNotAStore ==
    [][(kind = "avail" /\ pc = "apiWait" /\ pc' # "apiWait")
         => \A n \in DOMAIN stores' :
               \E k \in DOMAIN settled :
                  /\ ~IsError(settled[k])
                  /\ IsServiceable(settled[k])
                  /\ StoreOf(settled[k]) = stores'[n]]_vars

\* all location probes of an availability check have settled, one of them
\* failed, and its fallback record says SERVICEABLE
C22_Witness ==
    /\ kind = "avail"
    /\ pc = "apiWait"
    /\ AllSettled
    /\ \E k \in DOMAIN settled :
          /\ IsError(settled[k])
          /\ IsServiceable(settled[k])
          /\ \A j \in DOMAIN settled : j # k => ~IsServiceable(settled[j])

\* the function fn has been applied and has returned
Returned(fn) == applied.fn = fn /\ applied.ret # <<>>

\* C23: the field `available` of every availability record a probe produces
\* (recognized payload, unrecognized payload or failed probe) is true, false
\* or null.
C23_AvailableIsTriState ==
    Returned("checkItemAvailability")
       => applied.ret[1].availabilityData.available \in {"true", "false", Null}

\* a probe whose answer has the recognized shape but no stock flag returned
C23_Witness ==
    /\ Returned("checkItemAvailability")
    /\ applied.arg.resp.ok
    /\ Has(applied.arg.resp.data, "data")
    /\ IsObject(applied.arg.resp.data.data)
    /\ Has(applied.arg.resp.data.data, "item")
    /\ ~Has(applied.arg.resp.data.data.item, "inStockAndSlotAvailable")
    /\ applied.ret[1].availabilityData.responseStatus = "SUCCESS"

\* C24: the normalizers return a record for every payload; an absent payload
\* (undefined or null) yields the all-unknown record, an internal exception
\* the error-flagged variant.
C24_NormalizersDegrade ==
    /\ Returned("extractSlaData")
          => /\ DOMAIN NotAvailableSla \subseteq DOMAIN applied.ret[1]
             /\ ~IsObject(applied.arg) => applied.ret[1] = NotAvailableSla
    /\ Returned("extractItemAvailabilityData")
          => LET a == applied.arg
                 unknown == NoAvailabilityData(a.itemId, a.itemInternalName)
             IN  /\ DOMAIN unknown \subseteq DOMAIN applied.ret[1]
                 /\ ~IsObject(a.response) => applied.ret[1] = unknown
                 /\ (IsObject(a.response) /\ Has(a.response, "data")
                       /\ IsObject(a.response.data) /\ Has(a.response.data, "item")
                       /\ VariationsThrow(a.response.data.item))
                      => applied.ret[1] = ErrorAvailabilityData(a.itemId,
                                                                a.itemInternalName)

\* a normalizer returned for the payload undefined
C24_Witness ==
    \/ Returned("extractSlaData") /\ applied.arg = UndefinedValue
    \/ Returned("extractItemAvailabilityData") /\ applied.arg.response = UndefinedValue

\* the band a tag shows: the colour of a Tag, error for the red cross
BandOf(tag) ==
    IF tag.element = "Tag" THEN tag.color
    ELSE IF tag = CloseCircleTwoTone THEN "error"
    ELSE "success"

\* the minutes a label states: <<n>>, or <<>> when it states none
MinutesOf(label) ==
    IF IsObject(label) THEN parseInt(StripNonDigits(label.chars)) ELSE <<>>

\* C25: getSlaTag gives success for at most 20 minutes, warning for 21 to 30,
\* error above 30 and for a label that is null or states no number.
C25_SlaBands ==
    Returned("getSlaTag")
       => LET m == MinutesOf(applied.arg)
              band == BandOf(applied.ret[1])
          IN  /\ m = <<>> => band = "error"
              /\ (m # <<>> /\ m[1] <= 20) => band = "success"
              /\ (m # <<>> /\ m[1] >= 21 /\ m[1] <= 30) => band = "warning"
              /\ (m # <<>> /\ m[1] > 30) => band = "error"

\* getSlaTag returned for a label of letters only
C25_Witness ==
    /\ Returned("getSlaTag")
    /\ IsObject(applied.arg)
    /\ applied.arg.chars # <<>>
    /\ applied.arg.chars # <<"N", "/", "A">>
    /\ StripNonDigits(applied.arg.chars) = <<>>

\* C26: getAvailabilityTag shows true, false and null differently: what it
\* returns for null is neither what it returns for true nor for false.
C26_ThreeBands ==
    /\ getAvailabilityTag("true") # getAvailabilityTag("false")
    /\ (Returned("getAvailabilityTag") /\ applied.arg = Null)
          => /\ applied.ret[1] # getAvailabilityTag("false")
             /\ applied.ret[1] # getAvailabilityTag("true")

\* getAvailabilityTag returned for null
C26_Witness == Returned("getAvailabilityTag") /\ applied.arg = Null

\* C27: a batch run over c chunks of stores starts exactly c - 1 delays, one
\* after each chunk but the last: while chunk number k is in flight k - 1
\* delays have been started, a delay runs only when its chunk has drained
\* and nothing of the next chunk is in flight or has an outcome, and at the
\* end of the run c - 1 delays have been started; a run of one chunk or of
\* no chunk (and a serviceability check, which has no chunks) starts none.
C27_CooldownsBetweenChunks ==
    LET b == BatchSize(options)
        n == Len(stores)
        c == Ceil(n, b)
    IN  /\ kind # "avail" => cooldowns = 0
        /\ (kind = "avail" /\ c <= 1) => cooldowns = 0
        /\ (kind = "avail" /\ pc = "batchWait") => cooldowns = i \div b
        /\ (kind = "avail" /\ pc = "cooldown") =>
              /\ cooldowns = (i \div b) + 1
              /\ cooldowns <= c - 1
              /\ InFlight = {}
              /\ Len(results) + Len(errors) = Min(i + b, n) * Len(items)
        /\ (kind = "avail" /\ ProbingComplete) => cooldowns = c - 1

\* a run of two chunks has ended after one delay
C27_Witness ==
    /\ kind = "avail"
    /\ Completed
    /\ Ceil(Len(stores), BatchSize(options)) = 2
    /\ cooldowns = 1

\* the work units in the order the code creates them: locations in file
\* order; stores in list order and, for each store, the items in list order
UnitList ==
    IF kind = "sla"
    THEN [l \in DOMAIN locations |-> [location |-> locations[l]]]
    ELSE [n \in 1..(Len(stores) * Len(items)) |->
             [store |-> stores[((n - 1) \div Len(items)) + 1],
              item |-> items[((n - 1) % Len(items)) + 1]]]

IndexOf(u) == CHOOSE n \in DOMAIN UnitList : UnitList[n] = u

InUnitOrder(list) ==
    \A a, b \in DOMAIN list :
       a < b => IndexOf(UnitOf(list[a])) < IndexOf(UnitOf(list[b]))

\* C28: whatever the order in which the probes of a chunk complete, the
\* success list and the error list are each in unit-list order (store-major,
\* item-minor, chunk after chunk), and so are the lists of the report.
C28_ListsInUnitOrder ==
    /\ \A k \in DOMAIN results : UnitOf(results[k]) \in UnitSet
    /\ \A k \in DOMAIN errors : UnitOf(errors[k]) \in UnitSet
    /\ InUnitOrder(results)
    /\ InUnitOrder(errors)
    /\ (Completed /\ ~options.returnFullData) =>
          /\ Rep.results = SimplifiedResults(kind, results)
          /\ Rep.errors = SimplifiedErrors(kind, errors)

\* two probes were in flight together and both are in the same list
C28_Witness ==
    /\ Completed
    /\ BatchSize(options) * Len(items) >= 2 \/ kind = "sla"
    /\ Len(results) = 2 \/ Len(errors) = 2

\* C29: when every probe of an invocation has failed, the success list is
\* empty and the error list holds every unit; the save function is handed an
\* empty list, calls no insert and resolves with a failure result whatever
\* the storage would do, the table stays empty, and the report has success =
\* true, summary.successful = 0 and summary.failed = the number of units.
C29_AllFailedNoInsert ==
    (pc \in {"save", "done"} /\ UnitSet # {} /\ Len(results) = 0) =>
       /\ Len(errors) = Cardinality(UnitSet)
       /\ insertCalls = 0
       /\ db = <<>>
       /\ pc = "save" =>
             /\ saveArg = <<>>
             /\ InsertedRows(kind, saveArg) = <<>>
             /\ \A o \in InsertOutcomes :
                   ~SaveResult(InsertedRows(kind, saveArg), o).success
       /\ pc = "done" =>
             /\ Rep.success
             /\ Rep.summary.successful = 0
             /\ Rep.summary.failed = Cardinality(UnitSet)
             /\ Rep.results = <<>>

\* both probes of an invocation that saves failed, and it has returned
C29_Witness ==
    /\ pc = "done"
    /\ ShouldSave(options)
    /\ Cardinality(UnitSet) = 2
    /\ Len(results) = 0
    /\ Len(errors) = 2
    /\ Rep.success

\* the store id the answer of the item endpoint states, Null when it states
\* none
PayloadStoreId(raw) ==
    IF /\ Has(raw, "data")
       /\ IsObject(raw.data)
       /\ Has(raw.data, "item")
       /\ Has(raw.data, "storeDetails")
    THEN FieldOr(raw.data.storeDetails, "id", Null)
    ELSE Null

\* row is the record of the successful outcome r of the unit at position n
\* of the unit list
IdentifiesUnit(row, r, n) ==
    /\ UnitOf(r) = UnitList[n]
    /\ row.item_id = UnitList[n].item.productId
    /\ row.store_id = IF PayloadStoreId(r.rawData) # Null
                      THEN PayloadStoreId(r.rawData)
                      ELSE UnitList[n].store.storeId
    /\ UnitList[n].store.storeId \notin {Null, Undefined, ""}
          => row.store_id \notin {Null, Undefined, ""}

\* C30: every availability record handed to the bulk insert, and every row
\* stored, carries the item id of its work unit and the store id of the
\* payload when the payload states one, otherwise the store id of the unit;
\* its store id is not empty when the unit's store has one.
C30_RecordIdentifiesUnit ==
    kind = "avail" =>
       /\ pc = "save" =>
             LET rows == InsertedRows(kind, saveArg)
             IN  /\ Len(rows) = Len(results)
                 /\ \A j \in DOMAIN rows :
                       \E n \in DOMAIN UnitList : IdentifiesUnit(rows[j], results[j], n)
       /\ db # <<>> =>
             /\ Len(db) = Len(results)
             /\ \A j \in DOMAIN db :
                   \E n \in DOMAIN UnitList : IdentifiesUnit(db[j], results[j], n)

\* two rows were stored: one with the store id of the payload, one, of an
\* answer that states none, with the store id of its unit
C30_Witness ==
    /\ kind = "avail"
    /\ pc = "done"
    /\ Len(db) = 2
    /\ db[1].store_id = PayloadStoreId(results[1].rawData)
    /\ PayloadStoreId(results[2].rawData) = Null
    /\ db[2].store_id = stores[1].storeId
    /\ db[1].item_id # db[2].item_id

=============================================================================
